---- MODULE Spec2Model ----
(***************************************************************************)
(* Coach: the gRPC deployment service of baely/infra                       *)
(* (src/tools/cmd/coach/main.go, second copy of the file, lines 298-721). *)
(*                                                                         *)
(* Every unary call passes through authInterceptor and then through the    *)
(* Assemble or the Start handler.  A handler is a pipeline of blocking     *)
(* steps (filesystem calls, GitHub requests, external processes); each     *)
(* step is one action of the model and its outcome (success or error) is   *)
(* chosen by the environment.                                              *)
(*                                                                         *)
(* Strings that the code only compares or passes on are TLA+ strings.      *)
(* The authorization value is a sequence of pieces, so that                *)
(* strings.TrimPrefix is computed and not assumed.  A filesystem path is   *)
(* the sequence of its components below os.TempDir().                      *)
(***************************************************************************)
EXTENDS Integers, Sequences, FiniteSets, TLC

\* Call slots of the server (one goroutine per call).
NumCalls == 2
\* Distinct random suffixes os.MkdirTemp can draw.
MaxSuffix == 2

Calls == 1..NumCalls

VARIABLES
    calls,    \* per call slot: request, position in its pipeline, locals, result
    dirs,     \* directories that exist below os.TempDir()
    files,    \* regular files below os.TempDir(): records [path, content]
    pushed,   \* image references the registry has received
    running,  \* services whose stack docker compose has started
    server,   \* the coach process: where main is, and why it exited
    scout,    \* the scout process: its command, position and locals
    docker    \* files scout has written below docker/: records [path, content]

vars == <<calls, dirs, files, pushed, running, server, scout, docker>>

----------------------------------------------------------------------------
\* Strings and paths

\* The literal "Bearer " of authInterceptor, one piece of a header value.
BearerPrefix == "Bearer "

\* COACH_AUTH_TOKEN; main refuses to start when it is empty.
expectedToken == <<"s3cr3t">>

\* strings.TrimPrefix(s, "Bearer "): s without the prefix when it has it,
\* s unchanged otherwise.
TrimPrefix(s, prefix) ==
    IF Len(s) > 0 /\ s[1] = prefix THEN Tail(s) ELSE s

NoPath == <<>>

\* filepath.Join(dir, name)
Join(dir, name) == Append(dir, name)

\* p is dir or lies below dir.
Under(p, dir) ==
    /\ Len(p) >= Len(dir)
    /\ SubSeq(p, 1, Len(dir)) = dir

\* The directory os.MkdirTemp("", prefix + name + "-") names with suffix n.
TempPath(prefix, name, n) == <<prefix, name, n>>

Parent(p) == SubSeq(p, 1, Len(p) - 1)

DirsUnder(root) == {d \in dirs : Under(d, root)}
FilesUnder(root) == {f \in files : Under(f.path, root)}

\* What may be left of the tree at root when os.RemoveAll(root) returns an
\* error: the root and any part of the tree that still hangs together.
Leftovers(root) ==
    {k \in [dirs : SUBSET DirsUnder(root), files : SUBSET FilesUnder(root)] :
        /\ root \in k.dirs
        /\ \A d \in k.dirs : d # root => Parent(d) \in k.dirs
        /\ \A f \in k.files : Parent(f.path) \in k.dirs}

WriteFile_keepExisting(fs, path, content) ==
    IF \E f \in fs : f.path = path
    THEN fs
    ELSE fs \cup {[path |-> path, content |-> content]}

\* os.WriteFile(path, content, mode) on the set of files fs.
WriteFile(fs, path, content) ==
    {f \in fs : f.path # path} \cup {[path |-> path, content |-> content]}

\* os.WriteFile for each of the paths, one after the other.
RECURSIVE WriteAll(_, _, _)
WriteAll(fs, paths, content) ==
    IF paths = {}
    THEN fs
    ELSE LET p == CHOOSE q \in paths : TRUE
         IN WriteAll(WriteFile(fs, p, content), paths \ {p}, content)

----------------------------------------------------------------------------
\* Requests, metadata, results

OwnIdentity == "github.com_baely_infra"

\* The repo and service names of the requests below that contain a "/".
NamesWithSeparator == {"../evil", "x/../github.com_baely_infra"}

\* os.MkdirTemp refuses a pattern in which some character is a path
\* separator; the name is a part of the pattern.
HasPathSeparator(name) == name \in NamesWithSeparator

TagValues == {"TAG_UNSPECIFIED", "TAG_LATEST", "TAG_SHA", "TAG_7"}

\* An optional string field (*string): <<>> is nil, <<s>> points to s.
OptStrings(S) == {<<>>} \cup {<<s>> : s \in S}

AssembleRequests ==
    [kind : {"Assemble"},
     repo : {"", "blog", "../evil"},
     ref : {"", "main", "abc123"},
     image : {"", "blogimg"},
     tag : TagValues,
     dockerfile : OptStrings({"build/Dockerfile"}),
     context : OptStrings({"app"}),
     service : {""}]

StartRequests ==
    [kind : {"Start"},
     repo : {""},
     ref : {"", "main"},
     image : {""},
     tag : {"TAG_UNSPECIFIED"},
     dockerfile : {<<>>},
     context : {<<>>},
     service : {"", "github.com_baely_blog", OwnIdentity,
                "x/../github.com_baely_infra"}]

Requests == AssembleRequests \cup StartRequests

\* Values of one authorization metadata entry.
HeaderValues ==
    { <<BearerPrefix, "s3cr3t">>,
      <<BearerPrefix, "wr0ng">>,
      <<"s3cr3t">>,
      <<"wr0ng">>,
      <<>> }

\* Incoming metadata: absent, or present with the list md.Get("authorization").
NoMetadata == [present |-> FALSE, authorization |-> <<>>]
Metadata ==
    {NoMetadata}
    \cup {[present |-> TRUE, authorization |-> l] :
            l \in {<<>>} \cup {<<h>> : h \in HeaderValues}}

\* An error or acknowledgment as the caller sees it: the gRPC status code,
\* the message, and the chain of wrapped causes (<<>> when it wraps nothing).
NoResult == [code |-> "none", msg |-> "", cause |-> <<>>]
Ack == [code |-> "OK", msg |-> "", cause |-> <<>>]

\* status.Error(code, msg)
StatusError(code, msg) == [code |-> code, msg |-> msg, cause |-> <<>>]

\* fmt.Errorf(msg) or the error of a library call; returned by a handler,
\* grpc reports it as codes.Unknown.
PlainError(msg) == [code |-> "Unknown", msg |-> msg, cause |-> <<>>]

\* fmt.Errorf(msg + ": %w", err)
WrapError(msg, err) ==
    [code |-> "Unknown", msg |-> msg, cause |-> <<err.msg>> \o err.cause]

NoError == [code |-> "nil", msg |-> "", cause |-> <<>>]

\* The error os.MkdirTemp returns for the pattern with this name when it
\* did not create a directory.
MkdirTempError(name) ==
    PlainError(IF HasPathSeparator(name)
               THEN "mkdirtemp: pattern contains path separator"
               ELSE "mkdir: permission denied")

\* The error of exec.Cmd.Run for a process that exited with a failure.
ExitError == PlainError("exit status 1")

----------------------------------------------------------------------------
\* Pure functions of main.go

authenticate_anyCode(md) ==
    IF ~md.present
    THEN StatusError("Unauthenticated", "metadata not found")
    ELSE IF Len(md.authorization) = 0
    THEN StatusError("InvalidArgument", "authorization header required")
    ELSE IF TrimPrefix(md.authorization[1], BearerPrefix) # expectedToken
    THEN StatusError("Unauthenticated", "invalid token")
    ELSE NoError

\* The checks of authInterceptor before it calls the handler.
authenticate(md) ==
    IF ~md.present
    THEN StatusError("Unauthenticated", "metadata not found")
    ELSE IF Len(md.authorization) = 0
    THEN StatusError("Unauthenticated", "authorization header required")
    ELSE IF TrimPrefix(md.authorization[1], BearerPrefix) # expectedToken
    THEN StatusError("Unauthenticated", "invalid token")
    ELSE NoError

validateAssembleRequest_noImage(req) ==
    IF req.repo = "" THEN PlainError("repo name is required")
    ELSE IF req.ref = "" THEN PlainError("ref is required")
    ELSE NoError

validateAssembleRequest(req) ==
    IF req.repo = "" THEN PlainError("repo name is required")
    ELSE IF req.ref = "" THEN PlainError("ref is required")
    ELSE IF req.image = "" THEN PlainError("image name is required")
    ELSE NoError

validateStartRequest_noRef(req) ==
    IF req.service = "" THEN PlainError("service name is required")
    ELSE IF req.service = OwnIdentity THEN PlainError("coach cannot deploy coach")
    ELSE NoError

validateStartRequest_noSelf(req) ==
    IF req.service = "" THEN PlainError("service name is required")
    ELSE IF req.ref = "" THEN PlainError("ref is required")
    ELSE NoError

validateStartRequest(req) ==
    IF req.service = "" THEN PlainError("service name is required")
    ELSE IF req.ref = "" THEN PlainError("ref is required")
    ELSE IF req.service = OwnIdentity THEN PlainError("coach cannot deploy coach")
    ELSE NoError

getDockerTag_refForLatest(req) ==
    CASE req.tag = "TAG_LATEST" -> [tag |-> req.ref, err |-> NoError]
      [] req.tag = "TAG_SHA" -> [tag |-> req.ref, err |-> NoError]
      [] OTHER -> [tag |-> "", err |-> PlainError("invalid docker tag")]

getDockerTag_latestForSha(req) ==
    CASE req.tag = "TAG_LATEST" -> [tag |-> "latest", err |-> NoError]
      [] req.tag = "TAG_SHA" -> [tag |-> "latest", err |-> NoError]
      [] OTHER -> [tag |-> "", err |-> PlainError("invalid docker tag")]

\* getDockerTag: the tag and the error it returns.
getDockerTag(req) ==
    CASE req.tag = "TAG_LATEST" -> [tag |-> "latest", err |-> NoError]
      [] req.tag = "TAG_SHA" -> [tag |-> req.ref, err |-> NoError]
      [] OTHER -> [tag |-> "", err |-> PlainError("invalid docker tag")]

getStringOrDefault_alwaysDefault(ptr, defaultValue) == defaultValue

getStringOrDefault(ptr, defaultValue) ==
    IF ptr # <<>> THEN ptr[1] ELSE defaultValue

\* fmt.Sprintf("registry.baileys.dev/%s:%s", image, tag)
DockerImage(image, tag) == <<"registry.baileys.dev", image, tag>>

\* fmt.Sprintf("https://github.com/baely/%s", repo)
RepoURL(repo) == <<"https://github.com/baely", repo>>

----------------------------------------------------------------------------
\* Call slots

IdleCall ==
    [pc |-> "idle",
     req |-> CHOOSE r \in Requests : TRUE,
     md |-> NoMetadata,
     result |-> NoResult,
     validated |-> FALSE,   \* the handler ran its request validation
     contacted |-> FALSE,   \* a request went to the control repository
     tempDir |-> NoPath,    \* what os.MkdirTemp returned
     workDir |-> NoPath,    \* the directory the deferred os.RemoveAll is given
     dockerTag |-> "",
     dirContent |-> {},     \* the listing of docker/<service>
     downloadedCount |-> 0,
     downloaded |-> {},     \* names of the entries whose download succeeded
     mounted |-> [exists |-> FALSE, files |-> {}],  \* /app/services/<service>
     copyFailed |-> FALSE,  \* copyMountedServiceFiles returned an error
     created |-> {},        \* directories this call created
     procs |-> <<>>,        \* external processes started, in order
     rmFailed |-> FALSE,    \* the deferred os.RemoveAll returned an error
     cancelled |-> FALSE,   \* the context of the call is done
     cancelledDuring |-> 0] \* which process was running then (0: none)

\* The scout process before it is run (src/unnamed/part_002).
IdleScout ==
    [pc |-> "idle",
     mode |-> "",         \* the subcommand: "scan" or "repo"
     ref |-> "",          \* repo: the ref argument, HEAD when not given
     queue |-> <<>>,      \* repositories still to visit
     listed |-> <<>>,     \* the repositories the command is to go through
     visited |-> <<>>,    \* repositories whose config directory was asked for
     failures |-> {},     \* what failed for one repository: [repo, msg]
     todo |-> {},         \* entries of the config listing still to fetch
     sha |-> "",          \* what GetCommit returned for the repository
     replaceFailed |-> {},  \* files whose replaceShaPlaceholders failed
     result |-> NoResult]

Init ==
    /\ calls = [c \in Calls |-> IdleCall]
    /\ dirs = {}
    /\ files = {}
    /\ pushed = {}
    /\ running = {}
    /\ server = [state |-> "starting", cause |-> ""]
    /\ scout = IdleScout
    /\ docker = {}

\* log.Fatal: the process exits.
Fatal(cause) == [state |-> "exited", cause |-> cause]

\* main up to server.Serve: log.Fatal when COACH_AUTH_TOKEN is empty or when
\* net.Listen fails; otherwise the server accepts calls.
MainStart ==
    /\ server.state = "starting"
    /\ \E authToken \in {<<>>} \cup {expectedToken}, listenErr \in BOOLEAN :
          server' = IF authToken = <<>> THEN Fatal("COACH_AUTH_TOKEN")
                    ELSE IF listenErr THEN Fatal("net.Listen")
                    ELSE [server EXCEPT !.state = "serving"]
    /\ UNCHANGED <<calls, dirs, files, pushed, running, scout, docker>>

\* server.Serve returns an error (its listener failed): log.Fatalf.
ServeFails ==
    /\ server.state = "serving"
    /\ server' = Fatal("server.Serve")
    /\ UNCHANGED <<calls, dirs, files, pushed, running, scout, docker>>

Set_fatalOnError(c, r) ==
    /\ server.state = "serving"
    /\ calls' = [calls EXCEPT ![c] = r]
    /\ server' = IF r.pc = "returned" /\ r.result.code \notin {"OK", "none"}
                 THEN Fatal("call")
                 ELSE server
    /\ UNCHANGED <<scout, docker>>

\* A step of the interceptor or of a handler, taken while the process
\* serves: it changes the record of its call.  None of them calls log.Fatal
\* or os.Exit; a failure ends up in the result of the call.
Set(c, r) ==
    /\ server.state = "serving"
    /\ calls' = [calls EXCEPT ![c] = r]
    /\ UNCHANGED <<server, scout, docker>>

\* The call returns to the caller with result r.
Return(call, r) == [call EXCEPT !.pc = "returned", !.result = r]

\* A call arrives at the server with its metadata and request.
Arrive(c) ==
    /\ calls[c].pc = "idle"
    /\ \E req \in Requests, md \in Metadata :
          Set(c, [calls[c] EXCEPT !.pc = "intercept", !.req = req, !.md = md])
    /\ UNCHANGED <<dirs, files, pushed, running>>

\* authInterceptor: reject, or hand the call to its handler.
AuthInterceptor_handlerAnyway(c) ==
    /\ calls[c].pc = "intercept"
    /\ Set(c, [calls[c] EXCEPT !.pc = "handler"])
    /\ UNCHANGED <<dirs, files, pushed, running>>

AuthInterceptor(c) ==
    LET call == calls[c]
        err == authenticate(call.md)
    IN /\ call.pc = "intercept"
       /\ IF err # NoError
          THEN Set(c, Return(call, err))
          ELSE Set(c, [call EXCEPT !.pc = "handler"])
       /\ UNCHANGED <<dirs, files, pushed, running>>

\* An external process as exec.Command builds it; unused fields stay blank.
NoProc ==
    [tool |-> "", dir |-> NoPath, url |-> <<>>, dest |-> NoPath, ref |-> "",
     image |-> <<>>, push |-> FALSE, platform |-> "", file |-> "",
     context |-> "", sees |-> {}, done |-> FALSE, exit |-> 0]

\* cmd.Run() first starts the process ...
Started(call, proc) == [call EXCEPT !.procs = Append(@, proc)]

\* ... and then waits for it: the call has a child process that has not
\* exited yet.
Running(call) ==
    Len(call.procs) > 0 /\ ~call.procs[Len(call.procs)].done

\* cmd.Run() returned: the child process exited (with status 0 unless
\* Exited says otherwise).
Waited(call) == [call EXCEPT !.procs[Len(call.procs)].done = TRUE]

\* The process started last exited with this status.
Exited(call, status) ==
    [call EXCEPT !.procs[Len(call.procs)].exit = status]

\* The caller cancels the call, or its connection goes away: the context
\* the handler received is done.  The handlers never read ctx.Done() and
\* build their processes with exec.Command, which is not bound to a
\* context: nothing but the flag changes.
Cancel_killsChild(c) ==
    LET call == [calls[c] EXCEPT
                   !.cancelled = TRUE,
                   !.cancelledDuring = IF Running(calls[c])
                                       THEN Len(calls[c].procs) ELSE 0]
    IN /\ calls[c].pc \notin {"idle", "returned"}
       /\ ~calls[c].cancelled
       /\ IF Running(call)
          THEN Set(c, [Exited(Waited(call), 1) EXCEPT
                         !.pc = IF call.req.kind = "Assemble"
                                THEN "a_defer" ELSE "s_defer",
                         !.result = PlainError("signal: killed")])
          ELSE Set(c, call)
       /\ UNCHANGED <<dirs, files, pushed, running>>

Cancel(c) ==
    /\ calls[c].pc \notin {"idle", "returned"}
    /\ ~calls[c].cancelled
    /\ Set(c, [calls[c] EXCEPT
                 !.cancelled = TRUE,
                 !.cancelledDuring = IF Running(calls[c])
                                     THEN Len(calls[c].procs) ELSE 0])
    /\ UNCHANGED <<dirs, files, pushed, running>>

----------------------------------------------------------------------------
\* Assemble (main.go 352-394)

\* validateAssembleRequest, first statement of the handler.
AssembleValidate(c) ==
    LET call == [calls[c] EXCEPT !.validated = TRUE]
        err == validateAssembleRequest(call.req)
    IN /\ calls[c].pc = "handler"
       /\ calls[c].req.kind = "Assemble"
       /\ IF err # NoError
          THEN Set(c, Return(call, err))
          ELSE Set(c, [call EXCEPT !.pc = "a_mkdirtemp"])
       /\ UNCHANGED <<dirs, files, pushed, running>>

\* os.MkdirTemp("", "coach-assemble-<repo>-"): a directory that did not
\* exist, or an error.  The deferred removal is registered only on success.
AssembleMkdirTemp_noCheck(c) ==
    LET call == calls[c]
    IN /\ call.pc = "a_mkdirtemp"
       /\ \/ /\ Set(c, Return(call,
                    WrapError("failed to create temp directory",
                              MkdirTempError(call.req.repo))))
             /\ UNCHANGED dirs
          \/ \E n \in 1..MaxSuffix :
               LET tempDir == TempPath("coach-assemble-", call.req.repo, n)
               IN /\ ~HasPathSeparator(call.req.repo)
                  /\ dirs' = dirs \cup {tempDir}
                  /\ Set(c, [call EXCEPT !.pc = "a_clone",
                                         !.tempDir = tempDir,
                                         !.workDir = tempDir,
                                         !.created = @ \cup {tempDir}])
       /\ UNCHANGED <<files, pushed, running>>

AssembleMkdirTemp(c) ==
    LET call == calls[c]
    IN /\ call.pc = "a_mkdirtemp"
       /\ \/ /\ Set(c, Return(call,
                    WrapError("failed to create temp directory",
                              MkdirTempError(call.req.repo))))
             /\ UNCHANGED dirs
          \/ \E n \in 1..MaxSuffix :
               LET tempDir == TempPath("coach-assemble-", call.req.repo, n)
               IN /\ ~HasPathSeparator(call.req.repo)
                  /\ tempDir \notin dirs
                  /\ dirs' = dirs \cup {tempDir}
                  /\ Set(c, [call EXCEPT !.pc = "a_clone",
                                         !.tempDir = tempDir,
                                         !.workDir = tempDir,
                                         !.created = @ \cup {tempDir}])
       /\ UNCHANGED <<files, pushed, running>>

\* The path Assemble's deferred os.RemoveAll is given.
AssembleRepoDir(call) == Join(call.tempDir, call.req.repo)

\* cloneRepo: git clone <url> <repoDir>.  git creates repoDir; when it fails
\* it may or may not have removed it again.
AssembleClone(c) ==
    LET call == calls[c]
        repoDir == AssembleRepoDir(call)
        proc == [NoProc EXCEPT !.tool = "git clone",
                               !.url = RepoURL(call.req.repo),
                               !.dest = repoDir]
        ran == Waited(call)
    IN /\ call.pc = "a_clone"
       /\ \/ /\ ~Running(call)
             /\ dirs' = dirs
             /\ Set(c, Started(call, proc))
          \/ /\ Running(call)
             /\ dirs' = dirs \cup {repoDir}
             /\ Set(c, [ran EXCEPT !.pc = "a_checkout",
                                   !.created = @ \cup {repoDir}])
          \/ /\ Running(call)
             /\ dirs' = dirs \cup {repoDir}
             /\ Set(c, [Exited(ran, 1) EXCEPT !.pc = "a_defer",
                                   !.created = @ \cup {repoDir},
                                   !.result = WrapError("failed to clone repository",
                                                        ExitError)])
          \/ /\ Running(call)
             /\ dirs' = dirs
             /\ Set(c, [Exited(ran, 1) EXCEPT !.pc = "a_defer",
                                   !.result = WrapError("failed to clone repository",
                                                        ExitError)])
       /\ UNCHANGED <<files, pushed, running>>

AssembleCheckout_ignoreFailure(c) ==
    LET call == calls[c]
        proc == [NoProc EXCEPT !.tool = "git checkout",
                               !.dir = AssembleRepoDir(call),
                               !.ref = call.req.ref]
        ran == Waited(call)
    IN /\ call.pc = "a_checkout"
       /\ \/ ~Running(call) /\ Set(c, Started(call, proc))
          \/ Running(call) /\ Set(c, [ran EXCEPT !.pc = "a_tag"])
          \/ Running(call) /\
             Set(c, [Exited(ran, 1) EXCEPT !.pc = "a_tag"])
       /\ UNCHANGED <<dirs, files, pushed, running>>

\* checkoutRef: git checkout <ref> in repoDir.
AssembleCheckout(c) ==
    LET call == calls[c]
        proc == [NoProc EXCEPT !.tool = "git checkout",
                               !.dir = AssembleRepoDir(call),
                               !.ref = call.req.ref]
        ran == Waited(call)
    IN /\ call.pc = "a_checkout"
       /\ \/ ~Running(call) /\ Set(c, Started(call, proc))
          \/ Running(call) /\ Set(c, [ran EXCEPT !.pc = "a_tag"])
          \/ Running(call) /\
             Set(c, [Exited(ran, 1) EXCEPT !.pc = "a_defer",
                                !.result = WrapError("failed to checkout ref",
                                                     ExitError)])
       /\ UNCHANGED <<dirs, files, pushed, running>>

\* dockerTag, err := getDockerTag(req)
AssembleTag(c) ==
    LET call == calls[c]
        got == getDockerTag(call.req)
    IN /\ call.pc = "a_tag"
       /\ IF got.err # NoError
          THEN Set(c, [call EXCEPT !.pc = "a_defer", !.result = got.err])
          ELSE Set(c, [call EXCEPT !.pc = "a_build", !.dockerTag = got.tag])
       /\ UNCHANGED <<dirs, files, pushed, running>>

AssembleBuild_ackAnyway(c) ==
    LET call == calls[c]
        dockerImage == DockerImage(call.req.image, call.dockerTag)
        proc == [NoProc EXCEPT !.tool = "docker build",
                               !.dir = AssembleRepoDir(call),
                               !.image = dockerImage,
                               !.push = TRUE,
                               !.platform = "linux/amd64",
                               !.file = getStringOrDefault(call.req.dockerfile,
                                                           "Dockerfile"),
                               !.context = getStringOrDefault(call.req.context,
                                                              ".")]
        ran == Waited(call)
    IN /\ call.pc = "a_build"
       /\ \/ /\ ~Running(call)
             /\ pushed' = pushed
             /\ Set(c, Started(call, proc))
          \/ /\ Running(call)
             /\ pushed' = pushed \cup {dockerImage}
             /\ Set(c, [ran EXCEPT !.pc = "a_defer", !.result = Ack])
          \/ /\ Running(call)
             /\ pushed' = pushed
             /\ Set(c, [Exited(ran, 1) EXCEPT !.pc = "a_defer", !.result = Ack])
       /\ UNCHANGED <<dirs, files, running>>

\* buildDockerImage: docker build --tag <image> --push --platform linux/amd64
\* --file <dockerfile> <context>, in repoDir.
AssembleBuild(c) ==
    LET call == calls[c]
        dockerImage == DockerImage(call.req.image, call.dockerTag)
        proc == [NoProc EXCEPT !.tool = "docker build",
                               !.dir = AssembleRepoDir(call),
                               !.image = dockerImage,
                               !.push = TRUE,
                               !.platform = "linux/amd64",
                               !.file = getStringOrDefault(call.req.dockerfile,
                                                           "Dockerfile"),
                               !.context = getStringOrDefault(call.req.context,
                                                              ".")]
        ran == Waited(call)
    IN /\ call.pc = "a_build"
       /\ \/ /\ ~Running(call)
             /\ pushed' = pushed
             /\ Set(c, Started(call, proc))
          \/ /\ Running(call)
             /\ pushed' = pushed \cup {dockerImage}
             /\ Set(c, [ran EXCEPT !.pc = "a_defer", !.result = Ack])
          \/ /\ Running(call)
             /\ pushed' = pushed
             /\ Set(c, [Exited(ran, 1) EXCEPT !.pc = "a_defer",
                                   !.result = WrapError("failed to build docker image",
                                                        ExitError)])
       /\ UNCHANGED <<dirs, files, running>>

AssembleDeferTarget_repoDir(call) == AssembleRepoDir(call)

\* The argument of Assemble's deferred os.RemoveAll.
AssembleDeferTarget(call) == call.tempDir

DeferredRemoveAll_reportFailure(c, root) ==
    LET call == calls[c]
    IN \/ /\ dirs' = dirs \ DirsUnder(root)
          /\ files' = files \ FilesUnder(root)
          /\ Set(c, [call EXCEPT !.pc = "returned"])
       \/ \E k \in Leftovers(root) :
            /\ dirs' = (dirs \ DirsUnder(root)) \cup k.dirs
            /\ files' = (files \ FilesUnder(root)) \cup k.files
            /\ Set(c, [call EXCEPT !.pc = "returned", !.rmFailed = TRUE,
                                   !.result = PlainError("failed to cleanup temp directory")])

\* The deferred func of a handler: os.RemoveAll(root); an error is logged
\* and the result already decided is returned.
DeferredRemoveAll(c, root) ==
    LET call == calls[c]
    IN \/ /\ dirs' = dirs \ DirsUnder(root)
          /\ files' = files \ FilesUnder(root)
          /\ Set(c, [call EXCEPT !.pc = "returned"])
       \/ \E k \in Leftovers(root) :
            /\ dirs' = (dirs \ DirsUnder(root)) \cup k.dirs
            /\ files' = (files \ FilesUnder(root)) \cup k.files
            /\ Set(c, [call EXCEPT !.pc = "returned", !.rmFailed = TRUE])

AssembleDefer(c) ==
    /\ calls[c].pc = "a_defer"
    /\ DeferredRemoveAll(c, AssembleDeferTarget(calls[c]))
    /\ UNCHANGED <<pushed, running>>

----------------------------------------------------------------------------
\* Start (main.go 396-444) and downloadServiceConfig (465-528)

\* Entries GetContents may list for docker/<service>: a name, and whether
\* the entry carries a download URL (a subdirectory carries none).
ListingEntries == [name : {"deploy.yaml", "app.env"}, hasURL : BOOLEAN]

\* A directory listing: entries with distinct names.
Listings ==
    {l \in SUBSET ListingEntries :
        \A e1, e2 \in l : e1.name = e2.name => e1 = e2}

\* Files, by relative path, that the override directory
\* /app/services/<service> may hold on the host.
MountedFiles == {<<"app.env">>, <<"conf", "x.yaml">>, <<"deploy.yaml">>}

MountedTrees ==
    {[exists |-> FALSE, files |-> {}]}
    \cup {[exists |-> TRUE, files |-> fs] : fs \in SUBSET MountedFiles}

\* Everything filepath.Walk can visit, in its lexical order; the root first.
WalkOrder ==
    << [rel |-> <<>>, isDir |-> TRUE],
       [rel |-> <<"app.env">>, isDir |-> FALSE],
       [rel |-> <<"conf">>, isDir |-> TRUE],
       [rel |-> <<"conf", "x.yaml">>, isDir |-> FALSE],
       [rel |-> <<"deploy.yaml">>, isDir |-> FALSE] >>

InTree(tree, e) ==
    IF e.isDir
    THEN e.rel = <<>> \/ \E f \in tree.files : Under(f, e.rel)
    ELSE e.rel \in tree.files

\* The visits of filepath.Walk over an override tree.
Walk(tree) == SelectSeq(WalkOrder, LAMBDA e : InTree(tree, e))

\* validateStartRequest, after the first log line of the handler.
StartValidate(c) ==
    LET call == [calls[c] EXCEPT !.validated = TRUE]
        err == validateStartRequest(call.req)
    IN /\ calls[c].pc = "handler"
       /\ calls[c].req.kind = "Start"
       /\ IF err # NoError
          THEN Set(c, Return(call, err))
          ELSE Set(c, [call EXCEPT !.pc = "s_list"])
       /\ UNCHANGED <<dirs, files, pushed, running>>

\* What Start returns when downloadServiceConfig returned err.
DownloadFailed(call, err) ==
    Return(call, WrapError("failed to download service config", err))

\* client.Repositories.GetContents(ctx, ...) for docker/<service> at ref: an
\* error (always, when ctx is done already), or the listing, which may be
\* empty.
StartList(c) ==
    LET call == [calls[c] EXCEPT !.contacted = TRUE]
    IN /\ calls[c].pc = "s_list"
       /\ \/ Set(c, DownloadFailed(call,
                  WrapError("failed to get service directory contents",
                            PlainError(IF call.cancelled THEN "context canceled"
                                       ELSE "404 Not Found"))))
          \/ \E l \in Listings :
               /\ ~call.cancelled
               /\ IF l = {}
                  THEN Set(c, DownloadFailed(call,
                          PlainError("no files found in service directory")))
                  ELSE Set(c, [call EXCEPT !.pc = "s_mkdirtemp",
                                           !.dirContent = l])
       /\ UNCHANGED <<dirs, files, pushed, running>>

StartMkdirTemp_anyPattern(c) ==
    LET call == calls[c]
    IN /\ call.pc = "s_mkdirtemp"
       /\ \/ /\ Set(c, DownloadFailed(call,
                    WrapError("failed to create temp directory",
                              MkdirTempError(call.req.service))))
             /\ UNCHANGED dirs
          \/ \E n \in 1..MaxSuffix :
               LET tempDir == TempPath("coach-service-", call.req.service, n)
               IN /\ tempDir \notin dirs
                  /\ dirs' = dirs \cup {tempDir}
                  /\ Set(c, [call EXCEPT !.pc = "s_mkdirall",
                                         !.tempDir = tempDir,
                                         !.created = @ \cup {tempDir}])
       /\ UNCHANGED <<files, pushed, running>>

\* os.MkdirTemp("", "coach-service-<service>-")
StartMkdirTemp(c) ==
    LET call == calls[c]
    IN /\ call.pc = "s_mkdirtemp"
       /\ \/ /\ Set(c, DownloadFailed(call,
                    WrapError("failed to create temp directory",
                              MkdirTempError(call.req.service))))
             /\ UNCHANGED dirs
          \/ \E n \in 1..MaxSuffix :
               LET tempDir == TempPath("coach-service-", call.req.service, n)
               IN /\ ~HasPathSeparator(call.req.service)
                  /\ tempDir \notin dirs
                  /\ dirs' = dirs \cup {tempDir}
                  /\ Set(c, [call EXCEPT !.pc = "s_mkdirall",
                                         !.tempDir = tempDir,
                                         !.created = @ \cup {tempDir}])
       /\ UNCHANGED <<files, pushed, running>>

\* serviceDir := filepath.Join(tempDir, serviceName)
ServiceDir(call) == Join(call.tempDir, call.req.service)

\* os.MkdirAll(serviceDir, 0755)
StartMkdirAll(c) ==
    LET call == calls[c]
        serviceDir == ServiceDir(call)
    IN /\ call.pc = "s_mkdirall"
       /\ \/ /\ Set(c, DownloadFailed(call,
                    WrapError("failed to create service subdirectory",
                              PlainError("mkdir: permission denied"))))
             /\ UNCHANGED dirs
          \/ /\ dirs' = dirs \cup {serviceDir}
             /\ Set(c, [call EXCEPT !.pc = "s_download",
                                    !.created = @ \cup {serviceDir}])
       /\ UNCHANGED <<files, pushed, running>>

StartDownload_abortOnFailure(c) ==
    LET call == calls[c]
        serviceDir == ServiceDir(call)
        withURL == {e \in call.dirContent : e.hasURL}
    IN /\ call.pc = "s_download"
       /\ \E got \in SUBSET withURL :
            /\ files' = WriteAll(files,
                                  {Join(serviceDir, e.name) : e \in got},
                                  "remote")
            /\ IF got # withURL
               THEN Set(c, DownloadFailed(call,
                       WrapError("failed to download", PlainError("HTTP 404"))))
               ELSE Set(c, [call EXCEPT !.pc = "s_copy",
                                        !.downloadedCount = Cardinality(got),
                                        !.downloaded = {e.name : e \in got}])
       /\ UNCHANGED <<dirs, pushed, running>>

\* The download loop: an entry without URL is skipped, a failed download is
\* logged and skipped, the others are written into serviceDir.
StartDownload(c) ==
    LET call == calls[c]
        serviceDir == ServiceDir(call)
        withURL == {e \in call.dirContent : e.hasURL}
    IN /\ call.pc = "s_download"
       /\ \E got \in SUBSET withURL :
            /\ files' = WriteAll(files,
                                  {Join(serviceDir, e.name) : e \in got},
                                  "remote")
            /\ Set(c, [call EXCEPT !.pc = "s_copy",
                                   !.downloadedCount = Cardinality(got),
                                   !.downloaded = {e.name : e \in got}])
       /\ UNCHANGED <<dirs, pushed, running>>

\* The directories and files after the first k visits of the walk of
\* copyMountedServiceFiles(sourcePath, destPath) have been copied.
CopiedDirs(destPath, walk, k) ==
    {destPath \o walk[i].rel : i \in {j \in 1..k : walk[j].isDir}}

CopiedPaths(destPath, walk, k) ==
    {destPath \o walk[i].rel : i \in {j \in 1..k : ~walk[j].isDir}}

StartCopyMounted_failOnError(c) ==
    LET call == calls[c]
        serviceDir == ServiceDir(call)
    IN /\ call.pc = "s_copy"
       /\ \E tree \in MountedTrees :
            LET walk == IF tree.exists THEN Walk(tree) ELSE <<>>
            IN \E k \in 0..Len(walk) :
                 LET made == CopiedDirs(serviceDir, walk, k)
                     written == CopiedPaths(serviceDir, walk, k)
                 IN /\ dirs' = dirs \cup made
                    /\ files' = WriteAll(files, written, "local")
                    /\ LET merged == [call EXCEPT !.pc = "s_validate",
                                                  !.mounted = tree,
                                                  !.copyFailed = (k < Len(walk)),
                                                  !.workDir = serviceDir,
                                                  !.created = @ \cup made]
                       IN IF k < Len(walk)
                          THEN Set(c, DownloadFailed(merged,
                                  WrapError("failed to copy mounted files",
                                            PlainError("write"))))
                          ELSE Set(c, merged)
       /\ UNCHANGED <<pushed, running>>

\* copyMountedServiceFiles: nothing when the override directory does not
\* exist; otherwise the walk, which stops at the first error.  Its error is
\* logged by downloadServiceConfig, which then returns serviceDir.
StartCopyMounted(c) ==
    LET call == calls[c]
        serviceDir == ServiceDir(call)
    IN /\ call.pc = "s_copy"
       /\ \E tree \in MountedTrees :
            LET walk == IF tree.exists THEN Walk(tree) ELSE <<>>
            IN \E k \in 0..Len(walk) :
                 LET made == CopiedDirs(serviceDir, walk, k)
                     written == CopiedPaths(serviceDir, walk, k)
                 IN /\ dirs' = dirs \cup made
                    /\ files' = WriteAll(files, written, "local")
                    /\ Set(c, [call EXCEPT !.pc = "s_validate",
                                           !.mounted = tree,
                                           !.copyFailed = (k < Len(walk)),
                                           !.workDir = serviceDir,
                                           !.created = @ \cup made])
       /\ UNCHANGED <<pushed, running>>

\* validateDeployFile(workDir): os.Stat(workDir/deploy.yaml).
validateDeployFile_anyway(workDir) == NoError

validateDeployFile(workDir) ==
    IF \E f \in files : f.path = Join(workDir, "deploy.yaml")
    THEN NoError
    ELSE PlainError("deploy.yaml not found in service directory")

StartValidateDeploy(c) ==
    LET call == calls[c]
        err == validateDeployFile(call.workDir)
    IN /\ call.pc = "s_validate"
       /\ IF err # NoError
          THEN Set(c, [call EXCEPT !.pc = "s_defer", !.result = err])
          ELSE Set(c, [call EXCEPT !.pc = "s_pull"])
       /\ UNCHANGED <<dirs, files, pushed, running>>

\* runDockerCompose(workDir, args...): docker compose -f deploy.yaml <args>
ComposeProc(call, tool) ==
    [NoProc EXCEPT !.tool = tool,
                   !.dir = call.workDir,
                   !.file = "deploy.yaml",
                   !.sees = FilesUnder(call.workDir)]

StartPull_ignoreFailure(c) ==
    LET call == calls[c]
        proc == ComposeProc(call, "docker compose pull")
        ran == Waited(call)
    IN /\ call.pc = "s_pull"
       /\ \/ ~Running(call) /\ Set(c, Started(call, proc))
          \/ Running(call) /\ Set(c, [ran EXCEPT !.pc = "s_up"])
          \/ Running(call) /\
             Set(c, [Exited(ran, 1) EXCEPT !.pc = "s_up"])
       /\ UNCHANGED <<dirs, files, pushed, running>>

\* runDockerCompose(workDir, "pull")
StartPull(c) ==
    LET call == calls[c]
        proc == ComposeProc(call, "docker compose pull")
        ran == Waited(call)
    IN /\ call.pc = "s_pull"
       /\ \/ ~Running(call) /\ Set(c, Started(call, proc))
          \/ Running(call) /\ Set(c, [ran EXCEPT !.pc = "s_up"])
          \/ Running(call) /\
             Set(c, [Exited(ran, 1) EXCEPT !.pc = "s_defer",
                                !.result = WrapError("failed to pull images",
                                                     ExitError)])
       /\ UNCHANGED <<dirs, files, pushed, running>>

StartUp_ackAnyway(c) ==
    LET call == calls[c]
        proc == ComposeProc(call, "docker compose up")
        ran == Waited(call)
    IN /\ call.pc = "s_up"
       /\ \/ /\ ~Running(call)
             /\ running' = running
             /\ Set(c, Started(call, proc))
          \/ /\ Running(call)
             /\ running' = running \cup {call.req.service}
             /\ Set(c, [ran EXCEPT !.pc = "s_defer", !.result = Ack])
          \/ /\ Running(call)
             /\ running' = running
             /\ Set(c, [Exited(ran, 1) EXCEPT !.pc = "s_defer", !.result = Ack])
       /\ UNCHANGED <<dirs, files, pushed>>

\* runDockerCompose(workDir, "up", "-d")
StartUp(c) ==
    LET call == calls[c]
        proc == ComposeProc(call, "docker compose up")
        ran == Waited(call)
    IN /\ call.pc = "s_up"
       /\ \/ /\ ~Running(call)
             /\ running' = running
             /\ Set(c, Started(call, proc))
          \/ /\ Running(call)
             /\ running' = running \cup {call.req.service}
             /\ Set(c, [ran EXCEPT !.pc = "s_defer", !.result = Ack])
          \/ /\ Running(call)
             /\ running' = running
             /\ Set(c, [Exited(ran, 1) EXCEPT !.pc = "s_defer",
                                   !.result = WrapError("failed to start service",
                                                        ExitError)])
       /\ UNCHANGED <<dirs, files, pushed>>

\* The argument of Start's deferred os.RemoveAll: workDir, which is the
\* serviceDir that downloadServiceConfig returned.
StartDeferTarget(call) == call.workDir

StartDefer(c) ==
    /\ calls[c].pc = "s_defer"
    /\ DeferredRemoveAll(c, StartDeferTarget(calls[c]))
    /\ UNCHANGED <<pushed, running>>

----------------------------------------------------------------------------
\* The server

\* The slot that takes calls under Spec: one call, any request.
Next ==
    \/ MainStart
    \/ ServeFails
    \/ Arrive(1)
    \/ \E c \in Calls :
         \/ Cancel(c)
         \/ AuthInterceptor(c)
         \/ AssembleValidate(c)
         \/ AssembleMkdirTemp(c)
         \/ AssembleClone(c)
         \/ AssembleCheckout(c)
         \/ AssembleTag(c)
         \/ AssembleBuild(c)
         \/ AssembleDefer(c)
         \/ StartValidate(c)
         \/ StartList(c)
         \/ StartMkdirTemp(c)
         \/ StartMkdirAll(c)
         \/ StartDownload(c)
         \/ StartCopyMounted(c)
         \/ StartValidateDeploy(c)
         \/ StartPull(c)
         \/ StartUp(c)
         \/ StartDefer(c)

Spec == Init /\ [][Next]_vars

\* Concurrent Assemble calls: grpc runs each call's handler in a goroutine
\* of its own, so the steps of the calls interleave freely.  The requests
\* are valid and authenticated, for the same or for different repositories.
ConcRequests ==
    [kind : {"Assemble"},
     repo : {"blog", "site"},
     ref : {"main"},
     image : {"blogimg"},
     tag : {"TAG_LATEST"},
     dockerfile : {<<>>},
     context : {<<>>},
     service : {""}]

\* Call slots are interchangeable and so are the repository names: slots are
\* taken in order and the first call is for "blog".
ArriveConc(c) ==
    /\ calls[c].pc = "idle"
    /\ c > 1 => calls[c - 1].pc # "idle"
    /\ \E req \in ConcRequests :
          /\ c = 1 => req.repo = "blog"
          /\ Set(c, [calls[c] EXCEPT
                       !.pc = "intercept",
                       !.req = req,
                       !.md = [present |-> TRUE,
                               authorization |->
                                   << <<BearerPrefix>> \o expectedToken >>]])
    /\ UNCHANGED <<dirs, files, pushed, running>>

NextConc ==
    \/ MainStart
    \/ \E c \in Calls :
         \/ ArriveConc(c)
         \/ AuthInterceptor(c)
         \/ AssembleValidate(c)
         \/ AssembleMkdirTemp(c)
         \/ AssembleClone(c)
         \/ AssembleCheckout(c)
         \/ AssembleTag(c)
         \/ AssembleBuild(c)
         \/ AssembleDefer(c)

SpecConc == Init /\ [][NextConc]_vars

----------------------------------------------------------------------------
\* Scout (src/unnamed/part_002)

githubUser == "baely"

\* File contents are sequences of pieces: "{", "}", "sha" and "x" for any
\* other text; a commit SHA and the parts of a header are pieces too.
Placeholder == <<"{", "{", "sha", "}", "}">>

\* Bodies the files of a config directory may have.
ScoutContents ==
    { <<"x">>,
      Placeholder,
      <<"x">> \o Placeholder \o <<"x">> \o Placeholder,
      Placeholder \o Placeholder,
      <<"{", "{">> \o Placeholder \o <<"}", "}">>,
      <<"{", "{", "sha", "}">> }

\* Commit SHAs GetCommit may return.
ShaValues == {"abc123", "def456"}

\* The command line: scout scan, scout repo <name>, scout repo <name> <ref>.
ScoutCommands ==
    [mode : {"scan"}, name : {""}, ref : {"HEAD"}]
    \cup [mode : {"repo"}, name : {"blog"}, ref : {"HEAD", "v1"}]

\* What ListByUser may return for the user, in order.
ScoutRepoLists == {<<>>, <<"blog">>, <<"blog", "site">>}

\* The config directory of a repository: deploy.yaml, and a subdirectory,
\* which has no download URL.
ScoutEntries ==
    {[name |-> "deploy.yaml", hasURL |-> TRUE],
     [name |-> "sub", hasURL |-> FALSE]}

\* strings.Replace(s, old, new, 1)
RECURSIVE ReplaceAll_first(_, _, _)
ReplaceAll_first(s, old, new) ==
    IF Len(s) < Len(old) THEN s
    ELSE IF SubSeq(s, 1, Len(old)) = old
    THEN new \o SubSeq(s, Len(old) + 1, Len(s))
    ELSE <<Head(s)>> \o ReplaceAll_first(Tail(s), old, new)

\* strings.ReplaceAll(s, old, new) for a non-empty old: the non-overlapping
\* occurrences of old, found from the left, become new.
RECURSIVE ReplaceAll(_, _, _)
ReplaceAll(s, old, new) ==
    IF Len(s) < Len(old) THEN s
    ELSE IF SubSeq(s, 1, Len(old)) = old
    THEN new \o ReplaceAll(SubSeq(s, Len(old) + 1, Len(s)), old, new)
    ELSE <<Head(s)>> \o ReplaceAll(Tail(s), old, new)

\* repository.GetHTMLURL()
HTMLURL(repo) == <<"https://", "github.com", "/", githubUser, "/", repo>>

\* displayURL: the URL without "https://" and with "_" for every "/".
DisplayURL(repo) ==
    ReplaceAll(TrimPrefix(HTMLURL(repo), "https://"), <<"/">>, <<"_">>)

\* path.Join("docker", displayURL)
ScoutDir(repo) == <<"docker", DisplayURL(repo)>>

\* fmt.Sprintf("# Repo: %s\n# Ref: %s\n\n", repoURL, ref)
Header(repoURL, ref) == <<"# Repo: ">> \o repoURL \o <<"\n# Ref: ", ref, "\n\n">>

\* What a file may hold after os.WriteFile(filename, content) failed: what
\* it held before, or a part of content written over it.
Truncated(before, content) ==
    {before} \cup {SubSeq(content, 1, k) : k \in 0..(Len(content) - 1)}

\* replaceShaPlaceholders(filename, sha) on a file that holds content: the
\* contents the file may hold afterwards, with the error returned.
replaceShaPlaceholders(content, sha) ==
    LET updatedContent == ReplaceAll(content, Placeholder, <<sha>>)
    IN {[content |-> updatedContent, err |-> NoError]}
       \cup {[content |-> content,
              err |-> WrapError("failed to read file", PlainError("read"))]}
       \cup {[content |-> t,
              err |-> WrapError("failed to write updated file", PlainError("write"))] :
                t \in Truncated(content, updatedContent)}

\* addHeaderComments(filename, repoURL, ref), in the same way.
addHeaderComments(content, repoURL, ref) ==
    LET updatedContent == Header(repoURL, ref) \o content
    IN {[content |-> updatedContent, err |-> NoError]}
       \cup {[content |-> content,
              err |-> WrapError("failed to read file", PlainError("read"))]}
       \cup {[content |-> t,
              err |-> WrapError("failed to write updated file", PlainError("write"))] :
                t \in Truncated(content, updatedContent)}

\* scout ends: RunE returns err, or nil.
ScoutReturn(sc, r) == [sc EXCEPT !.pc = "done", !.result = r]

\* must(os.Getwd()) when os.Getwd returns an error: the panic ends scout.
Panic(msg) == [code |-> "panic", msg |-> msg, cause |-> <<>>]

\* The start of run / fetchDeployConfigs and of runSingleRepo: the working
\* directory, the token, the docker directory, and the repositories.
ScoutStart ==
    /\ scout.pc = "idle"
    /\ \E cmd \in ScoutCommands :
         LET sc == [scout EXCEPT !.mode = cmd.mode, !.ref = cmd.ref]
         IN \/ scout' = ScoutReturn(sc, Panic("getwd"))
            \/ scout' = ScoutReturn(sc,
                  WrapError("failed to change directory", PlainError("chdir")))
            \/ scout' = ScoutReturn(sc,
                  PlainError("GITHUB_TOKEN environment variable is required"))
            \/ scout' = ScoutReturn(sc,
                  WrapError("failed to create directory", PlainError("mkdir")))
            \/ /\ cmd.mode = "scan"
               /\ \/ scout' = ScoutReturn(sc,
                        WrapError("failed to list repos", PlainError("403")))
                  \/ \E l \in ScoutRepoLists :
                       scout' = [sc EXCEPT !.pc = "next", !.queue = l,
                                           !.listed = l]
            \/ /\ cmd.mode = "repo"
               /\ \/ scout' = ScoutReturn(sc,
                        WrapError("failed to get repository", PlainError("404")))
                  \/ scout' = [sc EXCEPT !.pc = "next", !.queue = <<cmd.name>>,
                                         !.listed = <<cmd.name>>]
    /\ UNCHANGED <<calls, dirs, files, pushed, running, server, docker>>

\* What went wrong for the repository at the head of the queue.
Failure(sc, err) == [repo |-> Head(sc.queue), msg |-> err.msg]

ScoutSkip_abort(sc, err) ==
    ScoutReturn([sc EXCEPT !.failures = @ \cup {Failure(sc, err)}], err)

\* Skipping the repository at the head of the queue: what scan does where
\* repo returns the error.
ScoutSkip(sc, err) ==
    IF sc.mode = "scan"
    THEN [sc EXCEPT !.queue = Tail(@), !.failures = @ \cup {Failure(sc, err)}]
    ELSE ScoutReturn([sc EXCEPT !.failures = @ \cup {Failure(sc, err)}], err)

\* One repository: GetContents of its config directory, os.MkdirAll of its
\* directory below docker, GetCommit for HEAD or for the ref.
ScoutRepo ==
    /\ scout.pc = "next"
    /\ IF scout.queue = <<>>
       THEN scout' = ScoutReturn(scout, Ack)
       ELSE LET sc == [scout EXCEPT !.visited = Append(@, Head(scout.queue))]
            IN \/ scout' = ScoutSkip(sc,
                     WrapError("failed to get deploy config", PlainError("404")))
               \/ scout' = ScoutSkip(sc, PlainError("no deploy config found"))
               \/ scout' = ScoutSkip(sc,
                     WrapError("failed to create directory", PlainError("mkdir")))
               \/ scout' = ScoutSkip(sc,
                     WrapError("failed to get commit", PlainError("404")))
               \/ \E l \in (SUBSET ScoutEntries) \ {{}}, sha \in ShaValues :
                    scout' = [sc EXCEPT !.pc = "files", !.todo = l, !.sha = sha]
    /\ UNCHANGED <<calls, dirs, files, pushed, running, server, docker>>

\* One entry of the listing: skipped without a download URL; otherwise
\* downloadFile, replaceShaPlaceholders, whose error is only a warning, and,
\* in runSingleRepo, addHeaderComments.  A failed download is a warning in
\* scan and the error of runSingleRepo.
ScoutFile ==
    /\ scout.pc = "files"
    /\ IF scout.todo = {}
       THEN /\ scout' = [scout EXCEPT !.pc = "next", !.queue = Tail(@)]
            /\ UNCHANGED docker
       ELSE \E e \in scout.todo :
              LET repo == Head(scout.queue)
                  filename == Join(ScoutDir(repo), e.name)
                  sc == [scout EXCEPT !.todo = @ \ {e}]
                  err == WrapError("failed to download", PlainError("HTTP 404"))
                  failed == [sc EXCEPT !.failures = @ \cup {Failure(sc, err)}]
              IN IF ~e.hasURL
                 THEN scout' = sc /\ UNCHANGED docker
                 ELSE \/ /\ UNCHANGED docker
                         /\ scout' =
                              IF sc.mode = "scan" THEN failed
                              ELSE ScoutReturn(failed, err)
                      \/ \E body \in ScoutContents :
                         \E r \in replaceShaPlaceholders(body, sc.sha) :
                           LET warned == [sc EXCEPT !.replaceFailed =
                                            IF r.err = NoError THEN @
                                            ELSE @ \cup {filename}]
                           IN IF sc.mode = "scan"
                              THEN /\ docker' = WriteFile(docker, filename, r.content)
                                   /\ scout' = warned
                              ELSE \E h \in addHeaderComments(r.content,
                                                              HTMLURL(repo), sc.ref) :
                                     /\ docker' = WriteFile(docker, filename,
                                                            h.content)
                                     /\ scout' =
                                          IF h.err = NoError THEN warned
                                          ELSE ScoutReturn(warned,
                                                 WrapError("failed to add header comments",
                                                           h.err))
    /\ UNCHANGED <<calls, dirs, files, pushed, running, server>>

NextScout ==
    \/ ScoutStart
    \/ ScoutRepo
    \/ ScoutFile

SpecScout == Init /\ [][NextScout]_vars

----------------------------------------------------------------------------
\* Properties

Returned(c) == calls[c].pc = "returned"
Arrived(c) == calls[c].pc # "idle"
IsAssemble(c) == Arrived(c) /\ calls[c].req.kind = "Assemble"
IsStart(c) == Arrived(c) /\ calls[c].req.kind = "Start"

\* The call was handed to its handler.
HandlerReached(c) == calls[c].pc = "handler" \/ calls[c].validated

\* The call failed: it returned something that is not the acknowledgment.
Failed(c) == Returned(c) /\ calls[c].result.code \notin {"OK", "none"}

\* Nothing this call created is left on the filesystem.
NothingLeft(c) ==
    /\ calls[c].created \cap dirs = {}
    /\ calls[c].tempDir # NoPath =>
          DirsUnder(calls[c].tempDir) = {} /\ FilesUnder(calls[c].tempDir) = {}

\* The call created no workspace and started no external process.
NoSideEffects(c) ==
    /\ calls[c].tempDir = NoPath
    /\ calls[c].created = {}
    /\ calls[c].procs = <<>>

\* C1: after any Start call returns, every directory the call created is
\* absent, the temporary directory included.  Stated for the returns in
\* which the deferred os.RemoveAll ran and reported no error (acknowledgment,
\* missing descriptor, compose pull or up failure), so that a violation is
\* the handler's own doing and not the filesystem's.
C1_StartLeavesNothing ==
    \A c \in Calls :
        (IsStart(c) /\ Returned(c) /\ calls[c].workDir # NoPath
            /\ ~calls[c].rmFailed)
            => NothingLeft(c)

C3_BadTagNoSideEffects ==
    \A c \in Calls :
        (IsAssemble(c) /\ calls[c].req.tag \notin {"TAG_LATEST", "TAG_SHA"})
            => NoSideEffects(c)

\* C4: an Assemble request with an empty repo, ref or image returns an error,
\* creates no workspace and starts no external process.
C4_AssembleMissingField ==
    \A c \in Calls :
        (IsAssemble(c)
            /\ (calls[c].req.repo = "" \/ calls[c].req.ref = ""
                \/ calls[c].req.image = ""))
            => /\ NoSideEffects(c)
               /\ ~calls[c].contacted
               /\ calls[c].pc \in {"intercept", "handler", "returned"}
               /\ Returned(c) => Failed(c)

\* An authenticated Assemble call rejected only for its empty image.
C4_Witness ==
    \E c \in Calls :
        /\ IsAssemble(c) /\ Failed(c) /\ calls[c].validated
        /\ calls[c].req.repo # "" /\ calls[c].req.ref # ""
        /\ calls[c].req.image = ""
        /\ calls[c].result.msg = "image name is required"

\* C5: a Start request with an empty service or ref returns an error without
\* contacting the control repository, creating a workspace or starting an
\* external process.
C5_StartMissingField ==
    \A c \in Calls :
        (IsStart(c) /\ (calls[c].req.service = "" \/ calls[c].req.ref = ""))
            => /\ ~calls[c].contacted
               /\ NoSideEffects(c)
               /\ calls[c].pc \in {"intercept", "handler", "returned"}
               /\ Returned(c) => Failed(c)

\* An authenticated Start call for a service, rejected for its empty ref.
C5_Witness ==
    \E c \in Calls :
        /\ IsStart(c) /\ Failed(c) /\ calls[c].validated
        /\ calls[c].req.service = "github.com_baely_blog"
        /\ calls[c].req.ref = ""
        /\ calls[c].result.msg = "ref is required"

\* C6: Start for the orchestrator's own identity fails for every ref, the
\* empty one included, and never creates a workspace or runs docker compose.
C6_NoSelfDeploy ==
    \A c \in Calls :
        (IsStart(c) /\ calls[c].req.service = OwnIdentity)
            => /\ NoSideEffects(c)
               /\ calls[c].result # Ack
               /\ OwnIdentity \notin running
               /\ Returned(c) => Failed(c)

\* An authenticated self-deploy with a ref, rejected by the validation.
C6_Witness ==
    \E c \in Calls :
        /\ IsStart(c) /\ Failed(c) /\ calls[c].validated
        /\ calls[c].req.service = OwnIdentity
        /\ calls[c].req.ref = "main"
        /\ calls[c].result.msg = "coach cannot deploy coach"

\* The metadata carries an authorization value of the form Bearer <token>
\* whose token is the configured secret.
BearerSecret(md) ==
    /\ md.present
    /\ Len(md.authorization) > 0
    /\ md.authorization[1] = <<BearerPrefix>> \o expectedToken

\* C7: a call reaches its handler only if it carries "Bearer <secret>"; any
\* other call is rejected with an Unauthenticated error.
C7_OnlyBearerSecretPasses ==
    \A c \in Calls :
        /\ HandlerReached(c) => BearerSecret(calls[c].md)
        /\ (Returned(c) /\ ~BearerSecret(calls[c].md))
              => calls[c].result.code = "Unauthenticated"

\* The credential is missing: no metadata, or no authorization value.
MissingCredential(md) == ~md.present \/ Len(md.authorization) = 0

\* Metadata with an authorization value that the interceptor refuses.
Mismatched ==
    {md \in Metadata : ~MissingCredential(md) /\ authenticate(md) # NoError}

C9_AuthFirst ==
    \A c \in Calls :
        (Arrived(c) /\ authenticate(calls[c].md) # NoError)
            => /\ ~calls[c].validated
               /\ ~calls[c].contacted
               /\ NoSideEffects(c)
               /\ calls[c].pc \in {"intercept", "returned"}

\* A Start call that would have passed validation, rejected for its token.
C9_Witness ==
    \E c \in Calls :
        /\ IsStart(c) /\ Returned(c)
        /\ calls[c].md.authorization = << <<BearerPrefix, "wr0ng">> >>
        /\ validateStartRequest(calls[c].req) = NoError
        /\ calls[c].result.code = "Unauthenticated"

\* The docker build processes the call has started.
Builds(c) ==
    {calls[c].procs[i] : i \in {j \in 1..Len(calls[c].procs) :
                                   calls[c].procs[j].tool = "docker build"}}

\* C10: with tag strategy Sha, the tag under which the image is built and
\* pushed is the request's ref, unchanged.
C10_ShaTagIsRef ==
    \A c \in Calls :
        (IsAssemble(c) /\ calls[c].req.tag = "TAG_SHA")
            => /\ \A b \in Builds(c) :
                    b.image = <<"registry.baileys.dev", calls[c].req.image,
                                calls[c].req.ref>>
               /\ (Returned(c) /\ calls[c].result = Ack)
                    => <<"registry.baileys.dev", calls[c].req.image,
                         calls[c].req.ref>> \in pushed

\* An acknowledged Assemble call with strategy Sha for the branch main.
C10_Witness ==
    \E c \in Calls :
        /\ IsAssemble(c) /\ Returned(c) /\ calls[c].result = Ack
        /\ calls[c].req.tag = "TAG_SHA" /\ calls[c].req.ref = "main"
        /\ Builds(c) # {}

\* C11: with tag strategy Latest, the tag under which the image is built and
\* pushed is the literal "latest", whatever the ref.
C11_LatestTagIsLatest ==
    \A c \in Calls :
        (IsAssemble(c) /\ calls[c].req.tag = "TAG_LATEST")
            => /\ \A b \in Builds(c) :
                    b.image = <<"registry.baileys.dev", calls[c].req.image,
                                "latest">>
               /\ (Returned(c) /\ calls[c].result = Ack)
                    => <<"registry.baileys.dev", calls[c].req.image,
                         "latest">> \in pushed

\* An acknowledged Assemble call with strategy Latest for the ref abc123.
C11_Witness ==
    \E c \in Calls :
        /\ IsAssemble(c) /\ Returned(c) /\ calls[c].result = Ack
        /\ calls[c].req.tag = "TAG_LATEST" /\ calls[c].req.ref = "abc123"
        /\ Builds(c) # {}

\* The docker compose processes the call has started.
Composes(c) ==
    {calls[c].procs[i] : i \in {j \in 1..Len(calls[c].procs) :
          calls[c].procs[j].tool \in {"docker compose pull",
                                      "docker compose up"}}}

\* Relative paths at which the override directory holds a file and a file
\* was downloaded too.
Collisions(c) ==
    {rel \in calls[c].mounted.files :
        Len(rel) = 1 /\ rel[1] \in calls[c].downloaded}

\* The compose process b finds the override's content at rel.
SeesOverride(b, rel) ==
    /\ [path |-> b.dir \o rel, content |-> "local"] \in b.sees
    /\ [path |-> b.dir \o rel, content |-> "remote"] \notin b.sees

HasDeployYaml(c) ==
    \E f \in files : f.path = Join(calls[c].workDir, "deploy.yaml")

\* C13: when the assembled workspace holds no deploy.yaml, Start fails with
\* the error naming the missing descriptor and starts neither compose pull
\* nor compose up, even when other files were downloaded.
C13_NoDescriptorNoCompose ==
    \A c \in Calls :
        /\ (IsStart(c) /\ calls[c].pc \in {"s_pull", "s_up", "s_defer"}
               /\ ~HasDeployYaml(c))
              => /\ calls[c].pc = "s_defer"
                 /\ calls[c].procs = <<>>
                 /\ calls[c].result =
                       PlainError("deploy.yaml not found in service directory")
        /\ (IsStart(c)
               /\ calls[c].result.msg = "deploy.yaml not found in service directory")
              => calls[c].procs = <<>> /\ calls[c].result.code # "OK"

\* A Start call that downloaded app.env but has no deploy.yaml has failed.
C13_Witness ==
    \E c \in Calls :
        /\ IsStart(c) /\ Failed(c)
        /\ calls[c].downloaded = {"app.env"}
        /\ calls[c].result.msg = "deploy.yaml not found in service directory"
        /\ calls[c].procs = <<>>

\* The tools of the external processes the call has started, in order.
Tools(c) == [i \in 1..Len(calls[c].procs) |-> calls[c].procs[i].tool]

IsPrefix(s, t) == Len(s) <= Len(t) /\ SubSeq(t, 1, Len(s)) = s

\* Only the process started last may have failed, and once it has, the
\* call holds an error and has nothing left to do but clean up and return.
StopsAtFirstFailure(c, deferPc) ==
    LET procs == calls[c].procs
    IN /\ \A i \in 1..(Len(procs) - 1) : procs[i].exit = 0
       /\ (Len(procs) > 0 /\ procs[Len(procs)].exit # 0)
             => /\ calls[c].pc \in {deferPc, "returned"}
                /\ calls[c].result.code \notin {"OK", "none"}

\* C18: Assemble runs git clone, then git checkout, then docker build, each
\* at most once; after a failed clone no checkout or build is started, after
\* a failed checkout no build, and the call returns an error.
C18_AssembleStepsInOrder ==
    \A c \in Calls :
        IsAssemble(c) =>
            /\ IsPrefix(Tools(c), <<"git clone", "git checkout", "docker build">>)
            /\ StopsAtFirstFailure(c, "a_defer")

\* An Assemble call has returned after its checkout failed.
C18_Witness ==
    \E c \in Calls :
        /\ IsAssemble(c) /\ Failed(c)
        /\ Tools(c) = <<"git clone", "git checkout">>
        /\ calls[c].procs[2].exit = 1
        /\ calls[c].result.msg = "failed to checkout ref"

\* C19: Start runs compose pull, then compose up, each at most once; after a
\* failed pull no up is started; when up fails the call returns an error and
\* starts no further process.
C19_ComposeStepsInOrder ==
    \A c \in Calls :
        IsStart(c) =>
            /\ IsPrefix(Tools(c), <<"docker compose pull", "docker compose up">>)
            /\ StopsAtFirstFailure(c, "s_defer")

\* A Start call has returned after pull succeeded and up failed.
C19_Witness ==
    \E c \in Calls :
        /\ IsStart(c) /\ Failed(c)
        /\ Tools(c) = <<"docker compose pull", "docker compose up">>
        /\ calls[c].procs[1].exit = 0 /\ calls[c].procs[2].exit = 1
        /\ calls[c].result.msg = "failed to start service"

\* downloadServiceConfig has returned the workspace of the call and its
\* download loop wrote no file.
ZeroDownloaded(c) ==
    /\ IsStart(c)
    /\ calls[c].workDir # NoPath
    /\ calls[c].downloadedCount = 0

\* C15: when zero files were downloaded for the service, Start starts no
\* docker compose process and fails with a NotFound error, whatever the
\* override directory holds.
C15_ZeroDownloadsNotFound ==
    \A c \in Calls :
        ZeroDownloaded(c) =>
            /\ calls[c].procs = <<>>
            /\ Returned(c) => calls[c].result.code = "NotFound"

\* Nothing was downloaded, the override supplied deploy.yaml, and the call
\* ran compose pull and compose up and was acknowledged.
C15_ComposeRanOnOverrideOnly ==
    \E c \in Calls :
        /\ ZeroDownloaded(c) /\ Returned(c)
        /\ calls[c].result = Ack
        /\ Tools(c) = <<"docker compose pull", "docker compose up">>

\* downloadServiceConfig returned at the listing: GetContents failed or the
\* listing of docker/<service> was empty.
ListingFailed(c) ==
    /\ IsStart(c) /\ Returned(c)
    /\ calls[c].contacted
    /\ calls[c].dirContent = {}

\* C16: when docker/<service> is missing at the ref or lists nothing, Start
\* fails with a NotFound error, having created no workspace and started no
\* external process.
C16_MissingDirectoryNotFound ==
    \A c \in Calls :
        ListingFailed(c) =>
            /\ calls[c].result.code = "NotFound"
            /\ NoSideEffects(c)

\* A Start call failed on an empty listing: no workspace, no process, and
\* the error is a plain one.
C16_EmptyListingUnknown ==
    \E c \in Calls :
        /\ ListingFailed(c) /\ NoSideEffects(c)
        /\ calls[c].result.code = "Unknown"
        /\ calls[c].result.cause = <<"no files found in service directory">>

\* The call returned the error of validateAssembleRequest, of getDockerTag
\* or of the required-field checks of validateStartRequest.
ValidationFailure(c) ==
    /\ Failed(c) /\ calls[c].validated
    /\ \/ IsAssemble(c) /\ validateAssembleRequest(calls[c].req) # NoError
       \/ IsAssemble(c) /\ calls[c].result = getDockerTag(calls[c].req).err
       \/ IsStart(c) /\ (calls[c].req.service = "" \/ calls[c].req.ref = "")

\* C17: every validation failure of Assemble and of Start reaches the
\* caller with the InvalidArgument class.
C17_ValidationIsInvalidArgument ==
    \A c \in Calls :
        ValidationFailure(c) => calls[c].result.code = "InvalidArgument"

\* An unrecognized tag strategy was rejected with the same class a failed
\* external process is reported with.
C17_ValidationUnknown ==
    \E c \in Calls :
        /\ ValidationFailure(c)
        /\ calls[c].result.msg = "invalid docker tag"
        /\ calls[c].result.code = ExitError.code
        /\ calls[c].result.code = "Unknown"

\* C20 as stated: the process has exited only for a missing secret or for a
\* listening port it could not bind.
C20_ExitsOnlyAtStartup ==
    server.state = "exited" => server.cause \in {"COACH_AUTH_TOKEN", "net.Listen"}

\* C20: the process exits only in main, for a missing secret, a port it
\* could not bind, or an error returned by server.Serve; no step of an
\* Assemble or Start call, failing or not, ends the process, and a failure
\* of a call is the result of that call.
C20_OnlyMainExits ==
    /\ [](server.state = "exited"
            => server.cause \in {"COACH_AUTH_TOKEN", "net.Listen", "server.Serve"})
    /\ [][calls' # calls => (server' = server /\ server.state = "serving")]_vars

\* A call has failed in its pipeline and the process still serves.
C20_Witness ==
    \E c \in Calls :
        /\ Failed(c) /\ calls[c].validated
        /\ Len(calls[c].procs) > 0
        /\ calls[c].procs[Len(calls[c].procs)].exit # 0
        /\ server.state = "serving"

\* The call holds a workspace: os.MkdirTemp returned it and the deferred
\* removal has not run yet.
HoldsWorkspace(c) ==
    /\ IsAssemble(c)
    /\ calls[c].pc \in {"a_clone", "a_checkout", "a_tag", "a_build", "a_defer"}

\* The step is the cleanup of call c.
CleanupOf(c) == calls[c].pc = "a_defer" /\ calls'[c].pc = "returned"

\* C14: two Assemble calls in flight, for the same repository or for
\* different ones, never hold the same workspace directory; the workspace
\* of a call exists until that call's own cleanup; and every removal of a
\* directory is the cleanup of one call and removes only what lies under
\* that call's workspace, wherever the other call is.
C14_WorkspacesDisjoint ==
    /\ [](\A c, d \in Calls :
            (c # d /\ HoldsWorkspace(c) /\ HoldsWorkspace(d))
                => calls[c].tempDir # calls[d].tempDir)
    /\ [](\A c \in Calls : HoldsWorkspace(c) => calls[c].tempDir \in dirs)
    /\ [][dirs \ dirs' # {}
            => \E c \in Calls :
                 /\ CleanupOf(c)
                 /\ \A p \in dirs \ dirs' : Under(p, calls[c].tempDir)
                 /\ \A d \in Calls \ {c} :
                      HoldsWorkspace(d) => DirsUnder(calls[d].tempDir) \subseteq dirs']_vars

\* One call for a repository has cleaned up and returned while another
\* call for the same repository still holds its workspace, intact.
C14_Witness ==
    \E c, d \in Calls :
        /\ c # d
        /\ IsAssemble(c) /\ Returned(c) /\ calls[c].tempDir # NoPath
        /\ calls[c].tempDir \notin dirs
        /\ HoldsWorkspace(d) /\ calls[d].req.repo = calls[c].req.repo
        /\ Len(calls[d].procs) > 0
        /\ AssembleRepoDir(calls[d]) \in dirs

\* C21: cancelling the context of a call while one of its external
\* processes runs changes nothing about that process: the step of the
\* cancellation leaves the processes of the call as they are, and a running
\* process stops running only by its own exit, in the step of the handler
\* that waited for it.
C21_CancelLeavesProcess ==
    [][\A c \in Calls :
         /\ calls'[c].cancelled # calls[c].cancelled
               => /\ calls'[c].procs = calls[c].procs
                  /\ calls'[c].pc = calls[c].pc
         /\ (Running(calls[c]) /\ ~Running(calls'[c]))
               => /\ calls'[c].cancelled = calls[c].cancelled
                  /\ Len(calls'[c].procs) = Len(calls[c].procs)]_vars

\* The context was cancelled while docker build ran; the build went on,
\* pushed the image, and the call was acknowledged.
C21_Witness ==
    \E c \in Calls :
        /\ IsAssemble(c) /\ Returned(c) /\ calls[c].result = Ack
        /\ calls[c].cancelled /\ calls[c].cancelledDuring = Len(calls[c].procs)
        /\ calls[c].procs[calls[c].cancelledDuring].tool = "docker build"
        /\ calls[c].procs[calls[c].cancelledDuring].done
        /\ calls[c].procs[calls[c].cancelledDuring].image \in pushed

\* How many docker build processes the call has started.
BuildCount(c) ==
    Cardinality({i \in 1..Len(calls[c].procs) :
                    calls[c].procs[i].tool = "docker build"})

\* C22: an Assemble call that reached the build stage starts exactly one
\* docker build, which also pushes, for registry.baileys.dev/<image>:<tag>
\* with the tag resolved from the strategy, for linux/amd64, with the
\* request's dockerfile_location or "Dockerfile" and the request's
\* context_location or ".".
C22_OneBuildAndPush ==
    \A c \in Calls :
        IsAssemble(c) =>
            /\ BuildCount(c) <= 1
            /\ (calls[c].dockerTag # "" /\ calls[c].pc \in {"a_defer", "returned"})
                  => BuildCount(c) = 1
            /\ \A b \in Builds(c) :
                  /\ b.image = <<"registry.baileys.dev", calls[c].req.image,
                                 IF calls[c].req.tag = "TAG_LATEST"
                                 THEN "latest" ELSE calls[c].req.ref>>
                  /\ b.push
                  /\ b.platform = "linux/amd64"
                  /\ b.file = IF calls[c].req.dockerfile = <<>> THEN "Dockerfile"
                              ELSE calls[c].req.dockerfile[1]
                  /\ b.context = IF calls[c].req.context = <<>> THEN "."
                                 ELSE calls[c].req.context[1]

\* A build ran with the Dockerfile the request named and the default
\* context, and its image was pushed.
C22_Witness ==
    \E c \in Calls :
        /\ IsAssemble(c) /\ Returned(c)
        /\ calls[c].req.dockerfile = <<"build/Dockerfile">>
        /\ calls[c].req.context = <<>>
        /\ \E b \in Builds(c) :
              b.done /\ b.file = "build/Dockerfile" /\ b.context = "."
                /\ b.image \in pushed

\* The call failed because an external process exited with a failure.
ProcessFailure(c) ==
    /\ Failed(c)
    /\ Len(calls[c].procs) > 0
    /\ calls[c].procs[Len(calls[c].procs)].exit # 0

\* The Start call failed at validateDeployFile.
MissingDescriptor(c) ==
    /\ IsStart(c) /\ Failed(c)
    /\ calls[c].workDir # NoPath
    /\ calls[c].procs = <<>>

\* C23: every pipeline error of Assemble or Start (clone, checkout, build
\* and push, missing descriptor, compose pull, compose up) carries the
\* underlying cause of the failing step.
C23_PipelineErrorsCarryCause ==
    \A c \in Calls :
        (ProcessFailure(c) \/ MissingDescriptor(c))
            => calls[c].result.cause # <<>>

\* A Start call failed for its missing descriptor with an error that wraps
\* nothing.
C23_DescriptorErrorBare ==
    \E c \in Calls :
        /\ MissingDescriptor(c)
        /\ calls[c].result.msg = "deploy.yaml not found in service directory"
        /\ calls[c].result.cause = <<>>

\* pat occurs in s.
Contains(s, pat) ==
    \E i \in 1..(Len(s) - Len(pat) + 1) : SubSeq(s, i, i + Len(pat) - 1) = pat

HasHeader(content, repoURL, ref) ==
    /\ Len(content) >= Len(Header(repoURL, ref))
    /\ SubSeq(content, 1, Len(Header(repoURL, ref))) = Header(repoURL, ref)

\* C25: every file scout has written below docker/ begins with the header
\* that names a repository URL and a ref.
C25_EveryFileHasHeader ==
    \A f \in docker :
        \E repo \in {"blog", "site"}, ref \in {"HEAD", "v1"} :
            HasHeader(f.content, HTMLURL(repo), ref)

\* scan has ended without an error and has left a file whose body it fetched
\* and replaced, and which has no header.
C25_ScanFileBare ==
    /\ scout.mode = "scan" /\ scout.pc = "done" /\ scout.result = Ack
    /\ \E f \in docker :
         /\ f.path \notin scout.replaceFailed
         /\ f.content = <<scout.sha>>

\* The call holds or has returned the acknowledgment.
Acknowledged(c) == calls[c].result = Ack

\* Process i of the call has exited with status 0.
Succeeded(c, i) == calls[c].procs[i].done /\ calls[c].procs[i].exit = 0

\* C26: Assemble acknowledges only after, in this order, git clone, git
\* checkout and docker build of this call each exited successfully, with the
\* tag resolved in between and the image pushed; never after one of them
\* failed or did not run.
C26_AckOnlyAfterAllSteps ==
    \A c \in Calls :
        (IsAssemble(c) /\ Acknowledged(c)) =>
            /\ Tools(c) = <<"git clone", "git checkout", "docker build">>
            /\ \A i \in 1..Len(calls[c].procs) : Succeeded(c, i)
            /\ calls[c].dockerTag \in {"latest", calls[c].req.ref}
            /\ calls[c].procs[Len(calls[c].procs)].image \in pushed

\* An Assemble call has returned the acknowledgment.
C26_Witness ==
    \E c \in Calls :
        /\ IsAssemble(c) /\ Returned(c) /\ Acknowledged(c)
        /\ Tools(c) = <<"git clone", "git checkout", "docker build">>
        /\ \A i \in 1..Len(calls[c].procs) : Succeeded(c, i)
        /\ calls[c].req.tag = "TAG_SHA"

\* C27: Start acknowledges only after the listing was fetched and was not
\* empty, deploy.yaml was in the workspace, and compose pull and then
\* compose up exited with status 0; and for each compose process that has
\* exited, its status alone says whether the call went on or failed there.
C27_AckOnlyAfterCompose ==
    \A c \in Calls :
        IsStart(c) =>
            /\ Acknowledged(c) =>
                 /\ calls[c].contacted /\ calls[c].dirContent # {}
                 /\ Tools(c) = <<"docker compose pull", "docker compose up">>
                 /\ \A i \in 1..Len(calls[c].procs) :
                      /\ Succeeded(c, i)
                      /\ \E f \in calls[c].procs[i].sees :
                           f.path = Join(calls[c].workDir, "deploy.yaml")
            /\ \A i \in 1..Len(calls[c].procs) :
                 calls[c].procs[i].done =>
                   IF calls[c].procs[i].exit = 0
                   THEN IF calls[c].procs[i].tool = "docker compose pull"
                        THEN calls[c].result \in {NoResult, Ack}
                               \/ (Len(calls[c].procs) > i /\ calls[c].procs[i + 1].done)
                        ELSE Acknowledged(c)
                   ELSE /\ calls[c].result.code = "Unknown"
                        /\ calls[c].result.cause = <<"exit status 1">>
                        /\ Len(calls[c].procs) = i

\* A Start call has returned the acknowledgment.
C27_Witness ==
    \E c \in Calls :
        /\ IsStart(c) /\ Returned(c) /\ Acknowledged(c)
        /\ Tools(c) = <<"docker compose pull", "docker compose up">>
        /\ \A i \in 1..Len(calls[c].procs) : Succeeded(c, i)
        /\ calls[c].req.service \in running

\* The request names a repo (Assemble) or a service (Start) with a "/".
SeparatorInName(c) ==
    \/ IsAssemble(c) /\ HasPathSeparator(calls[c].req.repo)
    \/ IsStart(c) /\ HasPathSeparator(calls[c].req.service)

\* C28: an Assemble request whose repo, or a Start request whose service,
\* contains a path separator has no workspace created and no external
\* process started for it, and the call fails.
C28_SeparatorNamesRejected ==
    \A c \in Calls :
        SeparatorInName(c) =>
            /\ NoSideEffects(c)
            /\ calls[c].pc \notin {"a_clone", "s_mkdirall"}
            /\ Returned(c) => Failed(c)

\* A Start call for a name that normalises to docker/github.com_baely_infra
\* got its listing and then failed at os.MkdirTemp.
C28_Witness ==
    \E c \in Calls :
        /\ IsStart(c) /\ Failed(c)
        /\ calls[c].req.service = "x/../github.com_baely_infra"
        /\ calls[c].dirContent # {}
        /\ calls[c].result.cause =
             <<"failed to create temp directory",
               "mkdirtemp: pattern contains path separator">>
        /\ dirs = {}

\* Names of the listed entries whose download was tried and failed.
FailedDownloads(c) ==
    {e.name : e \in {d \in calls[c].dirContent : d.hasURL}} \ calls[c].downloaded

\* The files, by name, that lie directly in the service directory of the
\* call with this content.
InServiceDir(c, content) ==
    {f.path[Len(f.path)] :
        f \in {g \in files : /\ Parent(g.path) = ServiceDir(calls[c])
                             /\ g.content = content}}

\* The call has left downloadServiceConfig without an error.
Staged(c) == calls[c].workDir # NoPath

\* C29: a file of the listing that fails to download does not end the Start
\* call: once the service directory exists the call always comes out of
\* downloadServiceConfig with its workspace; when the download loop is over
\* the workspace holds every file that did download; and a call that stops
\* before compose pull does so only when the workspace has no deploy.yaml.
C29_FailedDownloadGoesOn ==
    \A c \in Calls :
        IsStart(c) =>
            /\ (ServiceDir(calls[c]) \in calls[c].created
                  /\ calls[c].pc \notin {"s_download", "s_copy"})
                 => Staged(c)
            /\ calls[c].pc = "s_copy"
                 => InServiceDir(c, "remote") = calls[c].downloaded
            /\ (Staged(c) /\ calls[c].pc = "s_defer" /\ calls[c].procs = <<>>)
                 => ~HasDeployYaml(c)

\* app.env failed to download, deploy.yaml did not, and compose pull and up
\* ran on a workspace without app.env and were acknowledged.
C29_Witness ==
    \E c \in Calls :
        /\ IsStart(c) /\ Returned(c) /\ Acknowledged(c)
        /\ FailedDownloads(c) = {"app.env"}
        /\ Tools(c) = <<"docker compose pull", "docker compose up">>
        /\ \A i \in 1..Len(calls[c].procs) :
             \A f \in calls[c].procs[i].sees :
                f.path # Join(calls[c].workDir, "app.env")

\* C30: an error in the merge of the override directory does not fail the
\* Start call: the call goes on to validateDeployFile with what the walk had
\* copied before it stopped still in the workspace, and it fails afterwards
\* only for a missing deploy.yaml or a failed compose process.
C30_MergeErrorGoesOn ==
    \A c \in Calls :
        (IsStart(c) /\ calls[c].copyFailed) =>
            /\ Staged(c)
            /\ calls[c].pc \in {"s_validate", "s_pull", "s_up", "s_defer", "returned"}
            /\ calls[c].pc = "s_validate" =>
                 \E k \in 0..(Len(Walk(calls[c].mounted)) - 1) :
                    {f.path : f \in {g \in FilesUnder(calls[c].workDir) :
                                        g.content = "local"}}
                      = CopiedPaths(calls[c].workDir, Walk(calls[c].mounted), k)
            /\ Failed(c) =>
                 \/ calls[c].result =
                      PlainError("deploy.yaml not found in service directory")
                 \/ /\ Len(calls[c].procs) > 0
                    /\ calls[c].procs[Len(calls[c].procs)].exit # 0

\* The walk copied app.env and stopped before deploy.yaml; compose pull and
\* up ran with the override's app.env next to the downloaded deploy.yaml, and
\* the call was acknowledged.
C30_Witness ==
    \E c \in Calls :
        /\ IsStart(c) /\ Returned(c) /\ Acknowledged(c)
        /\ calls[c].copyFailed
        /\ \E i \in 1..Len(calls[c].procs) :
             /\ calls[c].procs[i].tool = "docker compose up"
             /\ [path |-> Join(calls[c].workDir, "app.env"), content |-> "local"]
                  \in calls[c].procs[i].sees
             /\ [path |-> Join(calls[c].workDir, "deploy.yaml"), content |-> "remote"]
                  \in calls[c].procs[i].sees

----------------------------------------------------------------------------
\* C31: if removing the workspace at the end of an Assemble or Start call
\* fails, the call's result is unchanged: the result was decided before the
\* deferred removal started (the acknowledgment or a pipeline error), the
\* step that removes the workspace and returns leaves it as it was, whether
\* or not the removal failed, and no returned call carries a result that
\* speaks of the removal.
C31_RemovalFailureNotReported ==
    [][\A c \in Calls :
          (calls[c].pc \in {"a_defer", "s_defer"} /\ calls'[c].pc = "returned")
              => /\ calls[c].result # NoResult
                 /\ calls'[c].result = calls[c].result
                 /\ calls'[c].rmFailed =>
                      \/ calls'[c].result = Ack
                      \/ /\ calls'[c].result.code = "Unknown"
                         /\ calls'[c].result.msg \in
                              {"failed to clone repository",
                               "failed to checkout ref",
                               "failed to build docker image",
                               "deploy.yaml not found in service directory",
                               "invalid docker tag",
                               "failed to pull images",
                               "failed to start service"}]_vars

\* A Start call that was acknowledged although its deferred removal failed
\* and left the workspace directory behind.
C31_Witness ==
    \E c \in Calls :
        /\ IsStart(c) /\ Returned(c) /\ Acknowledged(c)
        /\ calls[c].rmFailed
        /\ calls[c].workDir \in dirs

----------------------------------------------------------------------------
\* The repositories scout scan has left to go through, the one it is at not
\* counted.
Remaining ==
    IF scout.pc = "files" THEN Tail(scout.queue) ELSE scout.queue

\* scout scan goes through every listed repository in order, whatever failed
\* for one of them on the way, and reports no error once it is through.
ScanGoesOn ==
    (scout.mode = "scan" /\ scout.pc \in {"next", "files", "done"})
        => /\ scout.visited \o Remaining = scout.listed
           /\ \A f \in scout.failures :
                \E i \in 1..Len(scout.visited) : scout.visited[i] = f.repo
           /\ (scout.pc = "done" /\ scout.failures # {}) => scout.result = Ack
           /\ (scout.pc = "done" /\ scout.result = Ack)
                => scout.visited = scout.listed

\* scout scan ended with an error or a panic.
ScanFailed ==
    scout.mode = "scan" /\ scout.pc = "done" /\ scout.result # Ack

\* C32 as stated: in scout scan a failure confined to one repository never
\* aborts the scan, every remaining repository is still processed and the
\* run returns no error; the run fails only for a missing GitHub token, a
\* failure to create the docker directory or a failure to list repositories.
C32_ScanFailsForThreeCausesOnly ==
    /\ ScanGoesOn
    /\ ScanFailed =>
         /\ scout.visited = <<>> /\ scout.failures = {}
         /\ scout.result.msg \in
              {"GITHUB_TOKEN environment variable is required",
               "failed to create directory",
               "failed to list repos"}

\* C32 amended: as above, and the run also fails when the working directory
\* cannot be read (a panic) or cannot be changed to its parent, both before
\* any repository is looked at.
C32_ScanFailsBeforeFirstRepoOnly ==
    /\ ScanGoesOn
    /\ ScanFailed =>
         /\ scout.visited = <<>> /\ scout.failures = {}
         /\ \/ scout.result = Panic("getwd")
            \/ /\ scout.result.code = "Unknown"
               /\ scout.result.msg \in
                    {"failed to change directory",
                     "GITHUB_TOKEN environment variable is required",
                     "failed to create directory",
                     "failed to list repos"}

\* A scan of two repositories in which something failed for the first one:
\* the second was processed, its deploy.yaml is in its directory, and the run
\* returned no error.
C32_Witness ==
    /\ scout.mode = "scan" /\ scout.pc = "done" /\ scout.result = Ack
    /\ scout.listed = <<"blog", "site">>
    /\ scout.visited = <<"blog", "site">>
    /\ \E f \in scout.failures : f.repo = "blog"
    /\ \A f \in scout.failures : f.repo = "blog"
    /\ \E f \in docker : f.path = Join(ScoutDir("site"), "deploy.yaml")

====
